---------------------------- MODULE Spec2Model ----------------------------
(***************************************************************************)
(* A model of the LIVI gateway (src/main.py): the per-device session state *)
(* store (state_path, load_state, save_state) over a file system with      *)
(* inodes, and the transcript route (get_payload, get_output_text,         *)
(* safe_json_parse, route_transcript, transcript).                         *)
(*                                                                         *)
(* Python values are tagged tuples: <<"bool", b>>, <<"int", n>>,           *)
(* <<"str", chars>>, <<"none">>, <<"list", seq>>, <<"dict", function>>.    *)
(* A Python str is a sequence of one-character strings.  A JSON text is a  *)
(* sequence of lexemes, the chunks json.dump hands to write() one by one.  *)
(***************************************************************************)
EXTENDS Integers, Sequences, FiniteSets, TLC

(***************************************************************************)
(* Python values                                                           *)
(***************************************************************************)
PyBool(b) == <<"bool", b>>
PyInt(n) == <<"int", n>>
PyStr(s) == <<"str", s>>
PyNone == <<"none">>
PyList(l) == <<"list", l>>
PyDict(d) == <<"dict", d>>

IsStr(v) == v[1] = "str"
IsDict(v) == v[1] = "dict"

EmptyDict == [k \in {} |-> PyNone]

\* bool(v): the truth value Python gives an object.
Truthy(v) ==
    CASE v[1] = "bool" -> v[2]
      [] v[1] = "int" -> v[2] # 0
      [] v[1] = "str" -> Len(v[2]) > 0
      [] v[1] = "none" -> FALSE
      [] v[1] = "list" -> Len(v[2]) > 0
      [] v[1] = "dict" -> DOMAIN v[2] # {}

\* d.get(k): the value under k, None when the key is absent.
DictGet(d, k) == IF k \in DOMAIN d THEN d[k] ELSE PyNone

\* a or b
PyOr(a, b) == IF Truthy(a) THEN a ELSE b

\* The characters str.strip() removes.
Whitespace == {" ", "\t", "\n"}

RECURSIVE LStrip(_)
LStrip(s) == IF s # <<>> /\ Head(s) \in Whitespace THEN LStrip(Tail(s)) ELSE s

RECURSIVE RStrip(_)
RStrip(s) ==
    IF s # <<>> /\ s[Len(s)] \in Whitespace
    THEN RStrip(SubSeq(s, 1, Len(s) - 1))
    ELSE s

\* str.strip() on the characters of a str.
Strip(s) == RStrip(LStrip(s))

(***************************************************************************)
(* JSON: lexemes, json.dump and json.load                                  *)
(***************************************************************************)
LBrace == <<"punct", "{">>
RBrace == <<"punct", "}">>
LBrack == <<"punct", "[">>
RBrack == <<"punct", "]">>
Comma == <<"punct", ",">>
Colon == <<"punct", ":">>
\* A run of NUL bytes: the hole a write past the end of a file leaves.
Nul == <<"nul">>
\* Bytes that are no JSON lexeme (prose, or bytes that do not decode).
Junk == <<"junk">>

\* The escapes json.dump writes inside a string (ensure_ascii=False).
EscapeChar(c) ==
    CASE c = "\"" -> <<"\\", "\"">>
      [] c = "\\" -> <<"\\", "\\">>
      [] c = "\n" -> <<"\\", "n">>
      [] c = "\t" -> <<"\\", "t">>
      [] OTHER -> <<c>>

RECURSIVE Escape(_)
Escape(s) == IF s = <<>> THEN <<>> ELSE EscapeChar(Head(s)) \o Escape(Tail(s))

Invalid == <<"invalid">>

\* The decoder's scan of a string body: <<"invalid">> for a bare quote, a
\* bare control character or an unknown escape.
RECURSIVE Unescape(_)
Unescape(e) ==
    IF e = <<>> THEN <<>>
    ELSE IF Head(e) = "\\"
    THEN IF Len(e) < 2 THEN Invalid
         ELSE LET c == CASE e[2] = "\"" -> "\""
                         [] e[2] = "\\" -> "\\"
                         [] e[2] = "n" -> "\n"
                         [] e[2] = "t" -> "\t"
                         [] OTHER -> "invalid"
                  rest == Unescape(SubSeq(e, 3, Len(e)))
              IN IF c = "invalid" \/ rest = Invalid THEN Invalid ELSE <<c>> \o rest
    ELSE IF Head(e) \in {"\"", "\n", "\t"} THEN Invalid
    ELSE LET rest == Unescape(Tail(e))
         IN IF rest = Invalid THEN Invalid ELSE <<Head(e)>> \o rest

\* An encoder that writes a bool as the int it also is.
EncodeScalarBoolAsInt(v) ==
    CASE v[1] = "bool" -> <<"num", IF v[2] THEN 1 ELSE 0>>
      [] v[1] = "none" -> <<"lit", "null">>
      [] v[1] = "int" -> <<"num", v[2]>>
      [] v[1] = "str" -> <<"jstr", Escape(v[2])>>

\* The lexeme json.dump writes for a scalar.
EncodeScalar(v) ==
    CASE v[1] = "bool" -> <<"lit", IF v[2] THEN "true" ELSE "false">>
      [] v[1] = "none" -> <<"lit", "null">>
      [] v[1] = "int" -> <<"num", v[2]>>
      [] v[1] = "str" -> <<"jstr", Escape(v[2])>>

\* The order in which default_state inserts its keys; json.dump writes a
\* dict's members in insertion order.
FieldOrder ==
    <<"need_image", "request_id", "prompt", "image_request", "last_image_path",
      "last_image_mime", "last_image_size", "last_response", "last_audio_base64",
      "last_audio_id", "last_audio_format", "last_audio_mime", "last_audio_error",
      "updated_at">>

Fields == {FieldOrder[i] : i \in DOMAIN FieldOrder}

InDomain(d, k) == k \in DOMAIN d

\* The keys of d in insertion order (d's keys are DeviceState fields).
KeyOrder(d) == SelectSeq(FieldOrder, LAMBDA k : k \in DOMAIN d)

\* json.dump(d, f): the chunks written for a dict of scalars, '{', then per
\* member the key, ': ', the value, and ', ' between members, then '}'.
Dumps(d) ==
    LET ks == KeyOrder(d)
        n == Len(ks)
    IN IF n = 0 THEN <<LBrace, RBrace>>
       ELSE [i \in 1..(4 * n + 1) |->
               IF i = 1 THEN LBrace
               ELSE LET j == (i - 2) \div 4
                        r == (i - 2) % 4
                    IN CASE r = 0 -> <<"key", ks[j + 1]>>
                         [] r = 1 -> Colon
                         [] r = 2 -> EncodeScalar(d[ks[j + 1]])
                         [] r = 3 -> IF j + 1 = n THEN RBrace ELSE Comma]

ParseFail == [ok |-> FALSE, val |-> PyNone, next |-> 0]

ParseOk(v, n) == [ok |-> TRUE, val |-> v, next |-> n]

\* The JSON decoder, by recursive descent over the lexemes from position i.
RECURSIVE ParseValue(_, _)
RECURSIVE ParseMembers(_, _, _)
RECURSIVE ParseElements(_, _, _)
ParseValue(t, i) ==
    IF i > Len(t) THEN ParseFail
    ELSE LET k == t[i]
         IN CASE k[1] = "lit" ->
                   ParseOk(CASE k[2] = "true" -> PyBool(TRUE)
                             [] k[2] = "false" -> PyBool(FALSE)
                             [] k[2] = "null" -> PyNone, i + 1)
              [] k[1] = "num" -> ParseOk(PyInt(k[2]), i + 1)
              [] k[1] = "jstr" ->
                   LET u == Unescape(k[2])
                   IN IF u = Invalid THEN ParseFail ELSE ParseOk(PyStr(u), i + 1)
              [] k = LBrace ->
                   IF i + 1 <= Len(t) /\ t[i + 1] = RBrace
                   THEN ParseOk(PyDict(EmptyDict), i + 2)
                   ELSE ParseMembers(t, i + 1, EmptyDict)
              [] k = LBrack ->
                   IF i + 1 <= Len(t) /\ t[i + 1] = RBrack
                   THEN ParseOk(PyList(<<>>), i + 2)
                   ELSE ParseElements(t, i + 1, <<>>)
              [] OTHER -> ParseFail

ParseMembers(t, i, acc) ==
    IF i + 2 > Len(t) \/ t[i][1] # "key" \/ t[i + 1] # Colon THEN ParseFail
    ELSE LET r == ParseValue(t, i + 2)
         IN IF ~r.ok \/ r.next > Len(t) THEN ParseFail
            ELSE LET d == [x \in DOMAIN acc \cup {t[i][2]} |->
                              IF x = t[i][2] THEN r.val ELSE acc[x]]
                 IN IF t[r.next] = RBrace THEN ParseOk(PyDict(d), r.next + 1)
                    ELSE IF t[r.next] = Comma THEN ParseMembers(t, r.next + 1, d)
                    ELSE ParseFail

ParseElements(t, i, acc) ==
    LET r == ParseValue(t, i)
    IN IF ~r.ok \/ r.next > Len(t) THEN ParseFail
       ELSE IF t[r.next] = RBrack THEN ParseOk(PyList(Append(acc, r.val)), r.next + 1)
       ELSE IF t[r.next] = Comma THEN ParseElements(t, r.next + 1, Append(acc, r.val))
       ELSE ParseFail

\* json.loads(text): [ok, val]; ok is FALSE where Python raises
\* JSONDecodeError (no value, or extra data after the value).
Loads(t) ==
    LET r == ParseValue(t, 1)
    IN IF r.ok /\ r.next = Len(t) + 1 THEN [ok |-> TRUE, val |-> r.val]
       ELSE [ok |-> FALSE, val |-> PyNone]

\* json.loads ignores white space between lexemes.
IsSpace(tok) == tok[1] = "ws"

\* The complete JSON texts of dicts: what a finished json.dump leaves.
IsCompleteDump(t, records) == \E d \in records : t = Dumps(d)

(***************************************************************************)
(* DeviceState and the storage key                                         *)
(***************************************************************************)
\* default_state(): the record every load starts from.
default_state ==
    [need_image |-> PyBool(FALSE),
     request_id |-> PyStr(<<>>),
     prompt |-> PyStr(<<>>),
     image_request |-> PyStr(<<>>),
     last_image_path |-> PyStr(<<>>),
     last_image_mime |-> PyStr(<<>>),
     last_image_size |-> PyInt(0),
     last_response |-> PyStr(<<>>),
     last_audio_base64 |-> PyStr(<<>>),
     last_audio_id |-> PyStr(<<>>),
     last_audio_format |-> PyStr(<<>>),
     last_audio_mime |-> PyStr(<<>>),
     last_audio_error |-> PyStr(<<>>),
     updated_at |-> PyNone]

\* The characters for which c.isalnum() holds, among those the model draws.
Alnum == {"a", "d", "e", "f", "l", "t", "u", "0", "1"}

\* A state_path whose test has "and" for "or": no character passes it.
SafeCharAndForOr(c) == c \in Alnum /\ c \in {"-", "_"}

\* A state_path that keeps the dot of a file name too.
SafeCharWithDot(c) == c \in Alnum \/ c \in {"-", "_", "."}

\* The characters state_path keeps.
SafeChar(c) == c \in Alnum \/ c \in {"-", "_"}

\* "".join(c for c in device_id if c.isalnum() or c in ("-", "_"))
Sanitize(id) == SelectSeq(id, SafeChar)

DefaultName == <<"d", "e", "f", "a", "u", "l", "t">>

\* A state_path that names the file after the identifier as given.
state_path_unsanitized(id) == [name |-> id, ext |-> ".json"]

\* state_path(device_id): the file STATE_DIR/<safe>.json.
state_path(id) ==
    LET safe == Sanitize(id)
    IN [name |-> IF safe = <<>> THEN DefaultName ELSE safe, ext |-> ".json"]

\* A save that opens the final path itself.
TmpPathInPlace(p) == p

\* tmp = p + ".tmp"
TmpPath(p) == [name |-> p.name, ext |-> p.ext \o ".tmp"]

\* A merge the wrong way round: the defaults over the stored members.
DictUpdateDefaultsWin(s, d) ==
    [k \in DOMAIN s \cup DOMAIN d |-> IF k \in DOMAIN s THEN s[k] ELSE d[k]]

\* s.update(d): d's members over s's.
DictUpdate(s, d) ==
    [k \in DOMAIN s \cup DOMAIN d |-> IF k \in DOMAIN d THEN d[k] ELSE s[k]]

\* json.load(f): white space between lexemes is skipped.
JsonLoad(text) == Loads(SelectSeq(text, LAMBDA tok : ~IsSpace(tok)))

\* The try block of load_state once the file is open: json.load, then
\* default_state().update(data or {}).  ok is FALSE where it raises: the
\* text is no JSON, or update() is given a truthy value that is no dict
\* (the model draws no list of pairs).
LoadTry(text) ==
    LET r == JsonLoad(text)
    IN IF ~r.ok THEN [ok |-> FALSE, val |-> PyNone]
       ELSE IF ~Truthy(r.val) THEN [ok |-> TRUE, val |-> PyDict(default_state)]
       ELSE IF IsDict(r.val)
       THEN [ok |-> TRUE, val |-> PyDict(DictUpdate(default_state, r.val[2]))]
       ELSE [ok |-> FALSE, val |-> PyNone]

\* A load_state whose except clause does not catch the failure.
LoadResultNoExcept(text) == LoadTry(text)

\* load_state's try/except: any exception gives default_state().
LoadResult(text) ==
    IF LoadTry(text).ok THEN LoadTry(text)
    ELSE [ok |-> TRUE, val |-> PyDict(default_state)]

(***************************************************************************)
(* Bounds and the inputs drawn                                             *)
(***************************************************************************)
\* Calls of load_state and save_state begun in one run, over all threads.
MaxCalls == 2
\* Lexemes the file object buffers before it writes them out.
BufSize == 24
\* Longest device identifier given to state_path on its own.
MaxIdLen == 3
\* Most content segments of one output item given to get_output_text.
MaxSegs == 2

Procs == {1, 2}

\* The threads that call save_state in Spec: one, so that no two saves overlap.
Writers == {1}

\* The device identifiers drawn: two storage keys, one of them shared by
\* three identifiers.
DeviceIds == {<<>>, <<"a">>, <<"/">>, DefaultName}

Paths ==
    {state_path(id) : id \in DeviceIds} \cup {TmpPath(state_path(id)) : id \in DeviceIds}

\* One inode per path and one more per open file.
InodeIds == 1..(Cardinality(Paths) + Cardinality(Procs))

\* Well-formed DeviceState records: every field, each of its type.
StateSamples ==
    {[default_state EXCEPT !.need_image = PyBool(v[1]), !.request_id = PyStr(v[2]),
                           !.last_image_size = PyInt(v[3]), !.updated_at = v[4]] :
        v \in {<<FALSE, <<>>, 0, PyNone>>,
               <<TRUE, <<"r", "\"", " ", "\\", "n">>, 1, PyStr(<<"t">>)>>}}

(***************************************************************************)
(* State                                                                   *)
(***************************************************************************)
VARIABLES
    dir,      \* the state directory: path -> inode, 0 where no file is
    ino,      \* inode -> the file's text
    pc,       \* thread -> where it is in load_state or save_state
    ldev,     \* thread -> device_id of its load_state call
    sdev,     \* thread -> device_id of its latest save_state call
    sst,      \* thread -> state of its latest save_state call
    fd,       \* thread -> the inode of its open file, 0 when none
    pos,      \* thread -> offset of its open file, in lexemes written
    data,     \* thread -> the text its latest load read
    ret,      \* thread -> how its latest call ended
    prev,     \* thread -> how the call before that ended
    calls     \* calls begun

storeVars == <<dir, ino, pc, ldev, sdev, sst, fd, pos, data, ret, prev, calls>>

VARIABLES
    cyc       \* thread -> its place in a load, mutate, save cycle

VARIABLES
    hpc,        \* where the request to POST /livi/transcript is
    req,        \* the request
    payload,    \* p = get_payload(request)
    resp,       \* what client.responses.create returned
    response,   \* the HTTP response
    modelCalls  \* calls of the primary model

httpVars == <<hpc, req, payload, resp, response, modelCalls>>

VARIABLES
    kraw,     \* the device_id a caller gave state_path
    kid,      \* the device_id of the latest state_path call
    key,      \* the file name that call made, without ".json"
    kcalls,   \* calls of state_path made
    nresp,    \* the response object given to get_output_text
    ntext     \* what get_output_text returned

pureVars == <<kraw, kid, key, kcalls, nresp, ntext>>

vars == <<storeVars, cyc, httpVars, pureVars>>

NoRet == [op |-> "none", ok |-> TRUE, val |-> PyNone]

\* A file system with no inode left that neither a path nor an open file names.
Referenced(i, d, f) == (\E q \in Paths : d[q] = i) \/ (\E p \in Procs : f[p] = i)

Reap(d, f, c) == [i \in InodeIds |-> IF Referenced(i, d, f) THEN c[i] ELSE <<>>]

FreeInode(d, f) == CHOOSE i \in InodeIds : ~Referenced(i, d, f) /\ \A j \in InodeIds : j < i => Referenced(j, d, f)

\* write(toks) at offset off: bytes past the old end up to off read as NUL.
WriteAt(text, off, toks) ==
    LET n == IF off + Len(toks) > Len(text) THEN off + Len(toks) ELSE Len(text)
    IN [i \in 1..n |->
          IF i > off /\ i <= off + Len(toks) THEN toks[i - off]
          ELSE IF i <= Len(text) THEN text[i]
          ELSE Nul]

\* The text at a path, <<"absent">> where there is no file.
Absent == <<<<"absent">>>>

FileText(d, c, q) == IF d[q] = 0 THEN Absent ELSE c[d[q]]

\* What load_state(id) returns when it runs against the files d, c.
LoadStateOf(d, c, id) ==
    IF d[state_path(id)] = 0 THEN default_state
    ELSE LoadResult(c[d[state_path(id)]]).val[2]

CanonPaths == {state_path(id) : id \in DeviceIds}

\* The inode each final path's file has when the run begins.
CanonNo ==
    CHOOSE f \in [CanonPaths -> 1..Cardinality(CanonPaths)] :
       \A a, b \in CanonPaths : a # b => f[a] # f[b]

\* The state directory when the run begins: each final path holds the text
\* g gives it (Absent: no file), and there is no temporary file.
InitFiles(g) ==
    /\ dir = [q \in Paths |->
                IF q \in CanonPaths /\ g[q] # Absent THEN CanonNo[q] ELSE 0]
    /\ ino = [i \in InodeIds |->
                IF \E q \in CanonPaths : CanonNo[q] = i /\ g[q] # Absent
                THEN g[CHOOSE q \in CanonPaths : CanonNo[q] = i]
                ELSE <<>>]

InitThreads ==
    /\ pc = [p \in Procs |-> "idle"]
    /\ ldev = [p \in Procs |-> <<>>]
    /\ sdev = [p \in Procs |-> <<>>]
    /\ sst = [p \in Procs |-> default_state]
    /\ fd = [p \in Procs |-> 0]
    /\ pos = [p \in Procs |-> 0]
    /\ data = [p \in Procs |-> <<>>]
    /\ ret = [p \in Procs |-> NoRet]
    /\ prev = [p \in Procs |-> NoRet]
    /\ calls = 0

\* The sample that is not the default record.
RichRecord == CHOOSE S \in StateSamples : S # default_state

\* STATE_DIR outlives the process: a device has no file yet, or the whole
\* record the save_state of an earlier run left.
InitStore ==
    /\ \E g \in [CanonPaths -> {Dumps(RichRecord), Absent}] : InitFiles(g)
    /\ InitThreads

\* A state directory with no file, as on the first run.
InitEmpty ==
    /\ InitFiles([q \in CanonPaths |-> Absent])
    /\ InitThreads

(***************************************************************************)
(* load_state                                                              *)
(***************************************************************************)
\* A load that opens the file in a mode that creates it when it is missing.
LoadOpenCreates(p, id) ==
    /\ pc[p] = "idle"
    /\ calls' = calls + 1
    /\ ldev' = [ldev EXCEPT ![p] = id]
    /\ prev' = [prev EXCEPT ![p] = ret[p]]
    /\ LET q == state_path(id)
           i == IF dir[q] = 0 THEN FreeInode(dir, fd) ELSE dir[q]
       IN /\ dir' = [dir EXCEPT ![q] = i]
          /\ fd' = [fd EXCEPT ![p] = i]
    /\ pc' = [pc EXCEPT ![p] = "load_opened"]
    /\ ret' = [ret EXCEPT ![p] = NoRet]
    /\ UNCHANGED <<ino, data, sdev, sst, pos>>

\* open(p, "r"): a missing file raises, and load_state returns the default.
LoadOpen(p, id) ==
    /\ pc[p] = "idle"
    /\ calls' = calls + 1
    /\ ldev' = [ldev EXCEPT ![p] = id]
    /\ prev' = [prev EXCEPT ![p] = ret[p]]
    /\ IF dir[state_path(id)] = 0
       THEN /\ ret' = [ret EXCEPT ![p] = [op |-> "load", ok |-> TRUE, val |-> PyDict(default_state)]]
            /\ data' = [data EXCEPT ![p] = Absent]
            /\ UNCHANGED <<pc, fd>>
       ELSE /\ fd' = [fd EXCEPT ![p] = dir[state_path(id)]]
            /\ pc' = [pc EXCEPT ![p] = "load_opened"]
            /\ ret' = [ret EXCEPT ![p] = NoRet]
            /\ UNCHANGED data
    /\ UNCHANGED <<dir, ino, sdev, sst, pos>>

\* json.load(f), the merge over default_state(), and the file's close.
LoadRead(p) ==
    /\ pc[p] = "load_opened"
    /\ data' = [data EXCEPT ![p] = ino[fd[p]]]
    /\ ret' = [ret EXCEPT ![p] = [op |-> "load", ok |-> LoadResult(ino[fd[p]]).ok,
                                   val |-> LoadResult(ino[fd[p]]).val]]
    /\ fd' = [fd EXCEPT ![p] = 0]
    /\ ino' = Reap(dir, fd', ino)
    /\ pc' = [pc EXCEPT ![p] = "idle"]
    /\ UNCHANGED <<dir, ldev, sdev, sst, pos, prev, calls>>

(***************************************************************************)
(* save_state                                                              *)
(***************************************************************************)
\* A save that takes a temporary file left behind for its own: it opens it
\* without truncating it and goes on from its end.
SaveOpenResumes(p, id, state) ==
    /\ pc[p] = "idle"
    /\ calls' = calls + 1
    /\ sdev' = [sdev EXCEPT ![p] = id]
    /\ sst' = [sst EXCEPT ![p] = state]
    /\ prev' = [prev EXCEPT ![p] = ret[p]]
    /\ LET tmp == TmpPath(state_path(id))
           i == IF dir[tmp] = 0 THEN FreeInode(dir, fd) ELSE dir[tmp]
       IN /\ dir' = [dir EXCEPT ![tmp] = i]
          /\ ino' = [ino EXCEPT ![i] = IF dir[tmp] = 0 THEN <<>> ELSE @]
          /\ fd' = [fd EXCEPT ![p] = i]
          /\ pos' = [pos EXCEPT ![p] = IF dir[tmp] = 0 THEN 0 ELSE Len(ino[i])]
    /\ pc' = [pc EXCEPT ![p] = "save_writing"]
    /\ ret' = [ret EXCEPT ![p] = NoRet]
    /\ UNCHANGED <<ldev, data>>

\* open(tmp, "w"): creates the temporary file or truncates the one there.
SaveOpen(p, id, state) ==
    /\ pc[p] = "idle"
    /\ calls' = calls + 1
    /\ sdev' = [sdev EXCEPT ![p] = id]
    /\ sst' = [sst EXCEPT ![p] = state]
    /\ prev' = [prev EXCEPT ![p] = ret[p]]
    /\ LET tmp == TmpPath(state_path(id))
           i == IF dir[tmp] = 0 THEN FreeInode(dir, fd) ELSE dir[tmp]
       IN /\ dir' = [dir EXCEPT ![tmp] = i]
          /\ ino' = [ino EXCEPT ![i] = <<>>]
          /\ fd' = [fd EXCEPT ![p] = i]
    /\ pos' = [pos EXCEPT ![p] = 0]
    /\ pc' = [pc EXCEPT ![p] = "save_writing"]
    /\ ret' = [ret EXCEPT ![p] = NoRet]
    /\ UNCHANGED <<ldev, data>>

\* json.dump fills the buffer; a full buffer is written at the file's offset.
SaveWrite(p) ==
    /\ pc[p] = "save_writing"
    /\ Len(Dumps(sst[p])) - pos[p] > BufSize
    /\ ino' = [ino EXCEPT ![fd[p]] =
                  WriteAt(@, pos[p], SubSeq(Dumps(sst[p]), pos[p] + 1, pos[p] + BufSize))]
    /\ pos' = [pos EXCEPT ![p] = @ + BufSize]
    /\ UNCHANGED <<dir, pc, ldev, sdev, sst, fd, data, ret, prev, calls>>

\* The end of the with block: the rest of the buffer is written, the file closed.
SaveClose(p) ==
    /\ pc[p] = "save_writing"
    /\ Len(Dumps(sst[p])) - pos[p] <= BufSize
    /\ LET text == WriteAt(ino[fd[p]], pos[p],
                           SubSeq(Dumps(sst[p]), pos[p] + 1, Len(Dumps(sst[p]))))
       IN /\ fd' = [fd EXCEPT ![p] = 0]
          /\ ino' = Reap(dir, fd', [ino EXCEPT ![fd[p]] = text])
    /\ pos' = [pos EXCEPT ![p] = 0]
    /\ pc' = [pc EXCEPT ![p] = "save_closed"]
    /\ UNCHANGED <<dir, ldev, sdev, sst, data, ret, prev, calls>>

\* os.replace(tmp, p): the rename, which raises when tmp is gone.
SaveReplace(p) ==
    /\ pc[p] = "save_closed"
    /\ LET q == state_path(sdev[p])
           tmp == TmpPath(q)
       IN IF dir[tmp] = 0
          THEN /\ ret' = [ret EXCEPT ![p] = [op |-> "save", ok |-> FALSE, val |-> PyNone]]
               /\ UNCHANGED <<dir, ino>>
          ELSE /\ dir' = [dir EXCEPT ![q] = dir[tmp], ![tmp] = 0]
               /\ ino' = Reap(dir', fd, ino)
               /\ ret' = [ret EXCEPT ![p] = [op |-> "save", ok |-> TRUE, val |-> PyNone]]
    /\ pc' = [pc EXCEPT ![p] = "idle"]
    /\ UNCHANGED <<ldev, sdev, sst, fd, pos, data, prev, calls>>

\* A save whose failure path still renames (a replace in a finally block).
SaveFailPublishes(p) ==
    /\ pc[p] \in {"save_writing", "save_closed"}
    /\ fd' = [fd EXCEPT ![p] = 0]
    /\ dir' = [dir EXCEPT ![state_path(sdev[p])] = dir[TmpPath(state_path(sdev[p]))],
                          ![TmpPath(state_path(sdev[p]))] = 0]
    /\ ino' = Reap(dir', fd', ino)
    /\ pos' = [pos EXCEPT ![p] = 0]
    /\ pc' = [pc EXCEPT ![p] = "idle"]
    /\ ret' = [ret EXCEPT ![p] = [op |-> "save", ok |-> FALSE, val |-> PyNone]]
    /\ UNCHANGED <<ldev, sdev, sst, data, prev, calls>>

\* save_state ends before the replace: an exception out of the write, or the
\* process killed.  The open file is closed; the temporary file stays.
SaveFail(p) ==
    /\ pc[p] \in {"save_writing", "save_closed"}
    /\ fd' = [fd EXCEPT ![p] = 0]
    /\ ino' = Reap(dir, fd', ino)
    /\ pos' = [pos EXCEPT ![p] = 0]
    /\ pc' = [pc EXCEPT ![p] = "idle"]
    /\ ret' = [ret EXCEPT ![p] = [op |-> "save", ok |-> FALSE, val |-> PyNone]]
    /\ UNCHANGED <<dir, ldev, sdev, sst, data, prev, calls>>

(***************************************************************************)
(* The caller's load, mutate, save cycle                                   *)
(***************************************************************************)
InitCycle == cyc = [p \in Procs |-> "none"]

\* One more call may begin.
Budget == calls < MaxCalls

\* The field each request's step sets: the routing step the prompt, the
\* completion step the response.
MutField(p) == IF p = 1 THEN "prompt" ELSE "last_response"

Mutate(p, s) == [s EXCEPT ![MutField(p)] = PyStr(<<"m">>)]

\* A request's cycle begins: load_state(id).
CycleLoad(p, id) ==
    /\ cyc[p] = "none"
    /\ LoadOpen(p, id)
    /\ cyc' = [cyc EXCEPT ![p] = "loaded"]

\* The loaded record is mutated and handed to save_state(id, ...).
CycleSave(p) ==
    /\ cyc[p] = "loaded"
    /\ ret[p].op = "load"
    /\ SaveOpen(p, ldev[p], Mutate(p, ret[p].val[2]))
    /\ cyc' = [cyc EXCEPT ![p] = "saving"]

(***************************************************************************)
(* The request and the primary model's response                            *)
(***************************************************************************)
\* A str that holds a document is a sequence of lexemes, not of characters.
PyText(t) == <<"text", t>>

IsText(v) == v[1] = "text"

RECURSIVE LStripText(_)
LStripText(t) == IF t # <<>> /\ IsSpace(Head(t)) THEN LStripText(Tail(t)) ELSE t

RECURSIVE RStripText(_)
RStripText(t) ==
    IF t # <<>> /\ IsSpace(t[Len(t)]) THEN RStripText(SubSeq(t, 1, Len(t) - 1)) ELSE t

\* str.strip() on a document.
StripText(t) == RStripText(LStripText(t))

NoBody == <<"nobody">>

\* get_payload(req): the JSON body, then the form, then the query string,
\* each updating the payload, so a later source overwrites an earlier one.
get_payload(r) ==
    LET p1 == IF r.json # NoBody
              THEN DictUpdate(EmptyDict, PyOr(r.json, PyDict(EmptyDict))[2])
              ELSE EmptyDict
        p2 == IF DOMAIN r.form # {} THEN DictUpdate(p1, r.form) ELSE p1
    IN IF DOMAIN r.args # {} THEN DictUpdate(p2, r.args) ELSE p2

\* get_device_id(req)
get_device_id(r) ==
    PyOr(PyOr(DictGet(get_payload(r), "device_id"), r.header), PyStr(DefaultName))

\* (p.get("transcript") or ""): the value strip() is then called on.
TranscriptValue(p) == PyOr(DictGet(p, "transcript"), PyStr(<<>>))

\* A handler that tests the transcript without stripping it.
TranscriptTextNoStrip(p) == TranscriptValue(p)[2]

\* transcript_text = (p.get("transcript") or "").strip(), for a str.
TranscriptText(p) == Strip(TranscriptValue(p)[2])

\* The text fragments get_output_text collects from one item's content:
\* [ok, texts]; ok is FALSE where the traversal raises.
RECURSIVE CollectContent(_, _)
CollectContent(cs, acc) ==
    IF cs = <<>> THEN acc
    ELSE LET t == Head(cs).text
         IN CollectContent(Tail(cs),
                           IF IsText(t) /\ StripText(t[2]) # <<>>
                           THEN Append(acc, StripText(t[2]))
                           ELSE acc)

\* A traversal whose failure loses the fragments collected before it.
RECURSIVE CollectItemsLosesFragments(_, _)
CollectItemsLosesFragments(items, acc) ==
    IF items = <<>> THEN acc
    ELSE LET c == PyOr(Head(items).content, PyList(<<>>))
         IN IF c[1] # "list" THEN <<>>
            ELSE CollectItemsLosesFragments(Tail(items), CollectContent(c[2], acc))

\* The traversal of the output items: the fragments collected up to the end
\* or up to the item whose content cannot be iterated (the except clause).
RECURSIVE CollectItems(_, _)
CollectItems(items, acc) ==
    IF items = <<>> THEN acc
    ELSE LET c == PyOr(Head(items).content, PyList(<<>>))
         IN IF c[1] # "list" THEN acc
            ELSE CollectItems(Tail(items), CollectContent(c[2], acc))

RECURSIVE JoinLines(_)
JoinLines(texts) ==
    IF texts = <<>> THEN <<>>
    ELSE IF Len(texts) = 1 THEN texts[1]
    ELSE texts[1] \o <<<<"ws", "\n">>>> \o JoinLines(Tail(texts))

\* get_output_text(resp)
get_output_text(r) ==
    IF IsText(r.output_text) /\ StripText(r.output_text[2]) # <<>>
    THEN StripText(r.output_text[2])
    ELSE LET o == PyOr(r.output, PyList(<<>>))
         IN IF o[1] # "list" THEN <<>>
            ELSE StripText(JoinLines(CollectItems(o[2], <<>>)))

\* safe_json_parse(text): None where json.loads raises.
safe_json_parse(text) == IF JsonLoad(text).ok THEN JsonLoad(text).val ELSE PyNone

RouteError(msg) == [ok |-> FALSE, val |-> EmptyDict, err |-> msg]

\* route_transcript from the model's response on: [ok, val, err], ok FALSE
\* where it raises, err the exception's message.
RouteResult(r) ==
    LET parsed == safe_json_parse(get_output_text(r))
    IN IF ~Truthy(parsed) THEN RouteError("Invalid router response")
       ELSE IF ~IsDict(parsed) THEN RouteError("object has no attribute 'get'")
       ELSE LET ir == PyOr(DictGet(parsed[2], "image_request"), PyStr(<<>>))
                ar == PyOr(DictGet(parsed[2], "assistant_response"), PyStr(<<>>))
            IN IF ~IsStr(ir) \/ ~IsStr(ar) THEN RouteError("object has no attribute 'strip'")
               ELSE [ok |-> TRUE,
                     val |-> [needs_image |-> PyBool(Truthy(DictGet(parsed[2], "needs_image"))),
                              image_request |-> PyStr(Strip(ir[2])),
                              assistant_response |-> PyStr(Strip(ar[2]))],
                     err |-> ""]

\* The HTTP responses.
Http(status, kind, body) == [status |-> status, kind |-> kind, body |-> body]

NoResponse == Http(0, "none", EmptyDict)

ErrorBody(msg) == [error |-> msg]

\* One JSON object's text from its members' texts, in order.
RECURSIVE MembersText(_)
MembersText(ms) ==
    IF ms = <<>> THEN <<RBrace>>
    ELSE <<<<"key", Head(ms)[1]>>, Colon>> \o Head(ms)[2]
         \o (IF Len(ms) = 1 THEN <<>> ELSE <<Comma>>) \o MembersText(Tail(ms))

ObjText(ms) == <<LBrace>> \o MembersText(ms)

\* Texts of JSON values of every type.
ValueTexts ==
    {<<<<"lit", "true">>>>, <<<<"lit", "false">>>>, <<<<"lit", "null">>>>, <<<<"num", 5>>>>,
     <<<<"jstr", <<>>>>>>, <<<<"jstr", <<" ", "d", " ">>>>>>,
     <<LBrack, <<"num", 1>>, RBrack>>, ObjText(<<<<"a", <<<<"num", 1>>>>>>>>)}

\* Outputs that hold the three keys of a Decision.
DecisionTexts ==
    {ObjText(<<<<"needs_image", a>>, <<"image_request", b>>, <<"assistant_response", c>>>>) :
        a \in ValueTexts, b \in ValueTexts, c \in ValueTexts}

\* Other outputs: objects with keys missing, other JSON values, no JSON.
OtherTexts ==
    {<<LBrace, RBrace>>,
     ObjText(<<<<"needs_image", <<<<"lit", "true">>>>>>>>),
     ObjText(<<<<"assistant_response", <<<<"jstr", <<"h", "i">>>>>>>>>>),
     <<<<"lit", "null">>>>, <<LBrack, RBrack>>, <<LBrack, <<"num", 1>>, RBrack>>,
     <<<<"num", 5>>>>, <<<<"jstr", <<"o", "k">>>>>>,
     <<>>, <<Junk>>, <<Junk, LBrace, RBrace>>,
     <<LBrace, <<"key", "needs_image">>, Colon>>}

\* The responses of the primary model: the output in output_text, or in
\* the content of the output items.
Responses ==
    {[output_text |-> PyText(<<<<"ws", " ">>>> \o t \o <<<<"ws", "\n">>>>), output |-> PyNone] :
        t \in DecisionTexts \cup OtherTexts}
    \cup {[output_text |-> PyNone,
           output |-> PyList(<<[content |-> PyList(<<[text |-> PyText(t)]>>)]>>)] :
             t \in OtherTexts}
    \cup {[output_text |-> PyText(<<<<"ws", " ">>>>),
           output |-> PyList(<<[content |-> PyList(<<[text |-> PyText(<<LBrace>>)],
                                                      [text |-> PyNone],
                                                      [text |-> PyText(<<RBrace>>)]>>)],
                               [content |-> c]>>)] :
             c \in {PyNone, PyInt(1)}}
    \cup {[output_text |-> PyNone, output |-> o] : o \in {PyNone, PyInt(1)}}

\* Values a JSON body gives the transcript field; form and query values are
\* strs.
TranscriptStrs == {PyStr(<<>>), PyStr(<<" ", "\n">>), PyStr(<<" ", "h", "i">>), PyStr(<<"y", "o">>)}

FieldDicts(vals) ==
    {EmptyDict} \cup {[k \in {"transcript"} |-> v] : v \in vals}
    \cup {[k \in {"transcript", "device_id"} |->
             IF k = "transcript" THEN v ELSE PyStr(<<"a">>)] : v \in vals}
    \cup {[k \in {"device_id"} |-> PyStr(<<"/">>)]}

\* The requests: a JSON body or a form (one Content-Type), and a query string.
Requests ==
    {r \in [json : {NoBody, PyNone} \cup
                   {PyDict(d) : d \in FieldDicts(TranscriptStrs \cup {PyNone, PyInt(5)})},
            form : FieldDicts(TranscriptStrs),
            args : FieldDicts(TranscriptStrs),
            header : {PyNone, PyStr(<<"a">>)}] :
        /\ r.json # NoBody => DOMAIN r.form = {}
        /\ DOMAIN r.form # {} => "device_id" \notin DOMAIN r.form
        /\ DOMAIN r.args # {} /\ r.json = NoBody => "device_id" \notin DOMAIN r.args
        /\ r.header # PyNone => DOMAIN r.form = {} /\ r.json \notin {PyNone}}

NoRequest == [json |-> NoBody, form |-> EmptyDict, args |-> EmptyDict, header |-> PyNone]

NoModelResponse == [output_text |-> <<"unset">>, output |-> <<"unset">>]

InitHttp ==
    /\ hpc = "idle"
    /\ req = NoRequest
    /\ payload = EmptyDict
    /\ resp = NoModelResponse
    /\ response = NoResponse
    /\ modelCalls = 0

\* transcript(), up to the call of route_transcript: a transcript that is
\* no str makes strip() raise out of the handler (Flask answers 500).
Receive(r) ==
    /\ hpc = "idle"
    /\ req' = r
    /\ payload' = get_payload(r)
    /\ IF ~IsStr(TranscriptValue(get_payload(r)))
       THEN /\ response' = Http(500, "unhandled", ErrorBody("Internal Server Error"))
            /\ hpc' = "done"
       ELSE IF TranscriptText(get_payload(r)) = <<>>
       THEN /\ response' = Http(400, "error", ErrorBody("Missing transcript"))
            /\ hpc' = "done"
       ELSE /\ response' = NoResponse
            /\ hpc' = "routing"
    /\ UNCHANGED <<resp, modelCalls>>

\* client.responses.create returns, and the rest of route_transcript and of
\* the handler runs.
ModelReturns(r) ==
    /\ hpc = "routing"
    /\ modelCalls' = modelCalls + 1
    /\ resp' = r
    /\ response' = IF RouteResult(r).ok
                   THEN Http(200, "decision", RouteResult(r).val)
                   ELSE Http(500, "error", ErrorBody(RouteResult(r).err))
    /\ hpc' = "done"
    /\ UNCHANGED <<req, payload>>

\* A router that calls the model a second time when the first call raises.
ModelRaisesRetries ==
    /\ hpc = "routing"
    /\ modelCalls' = modelCalls + 1
    /\ response' = IF modelCalls = 0 THEN NoResponse
                   ELSE Http(500, "error", ErrorBody("Connection error."))
    /\ hpc' = IF modelCalls = 0 THEN "routing" ELSE "done"
    /\ UNCHANGED <<req, payload, resp>>

\* client.responses.create raises.
ModelRaises ==
    /\ hpc = "routing"
    /\ modelCalls' = modelCalls + 1
    /\ response' = Http(500, "error", ErrorBody("Connection error."))
    /\ hpc' = "done"
    /\ UNCHANGED <<req, payload, resp>>

NoKey == <<"nokey">>

NoText == <<<<"notext">>>>

\* No call of state_path made yet for the identifier id.
InitKey(id) ==
    /\ kraw = id
    /\ kid = id
    /\ key = NoKey
    /\ kcalls = 0

\* No call of get_output_text made yet for the response r.
InitNorm(r) ==
    /\ nresp = r
    /\ ntext = NoText

Init == InitStore /\ InitCycle /\ InitHttp /\ InitKey(<<>>) /\ InitNorm(NoModelResponse)

\* The first run: no file stored yet.
InitFirstRun ==
    InitEmpty /\ InitCycle /\ InitHttp /\ InitKey(<<>>) /\ InitNorm(NoModelResponse)

Next ==
    \/ \E p \in Procs, id \in DeviceIds :
          Budget /\ LoadOpen(p, id) /\ UNCHANGED <<cyc, httpVars, pureVars>>
    \/ \E p \in Procs : LoadRead(p) /\ UNCHANGED <<cyc, httpVars, pureVars>>
    \/ \E p \in Writers, id \in DeviceIds, state \in StateSamples :
          Budget /\ SaveOpen(p, id, state) /\ UNCHANGED <<cyc, httpVars, pureVars>>
    \/ \E p \in Procs : SaveWrite(p) /\ UNCHANGED <<cyc, httpVars, pureVars>>
    \/ \E p \in Procs : SaveClose(p) /\ UNCHANGED <<cyc, httpVars, pureVars>>
    \/ \E p \in Procs : SaveReplace(p) /\ UNCHANGED <<cyc, httpVars, pureVars>>
    \/ \E p \in Procs : SaveFail(p) /\ UNCHANGED <<cyc, httpVars, pureVars>>

Spec == Init /\ [][Next]_vars

\* The store's calls on the first run, from an empty state directory.
SpecFirstRun == InitFirstRun /\ [][Next]_vars

\* Every thread may call save_state, as the requests of a threaded server
\* do: the code takes no lock, so saves overlap, those for one device too.
NextSaves ==
    \/ \E p \in Procs, id \in DeviceIds, state \in StateSamples :
          Budget /\ SaveOpen(p, id, state) /\ UNCHANGED <<cyc, httpVars, pureVars>>
    \/ \E p \in Procs : SaveWrite(p) /\ UNCHANGED <<cyc, httpVars, pureVars>>
    \/ \E p \in Procs : SaveClose(p) /\ UNCHANGED <<cyc, httpVars, pureVars>>
    \/ \E p \in Procs : SaveReplace(p) /\ UNCHANGED <<cyc, httpVars, pureVars>>
    \/ \E p \in Procs : SaveFail(p) /\ UNCHANGED <<cyc, httpVars, pureVars>>

SpecSaves == Init /\ [][NextSaves]_vars

\* Two requests for devices of their choice, each running one cycle; the
\* code takes no lock around it.
NextCycle ==
    \/ \E p \in Procs, id \in DeviceIds : CycleLoad(p, id) /\ UNCHANGED <<httpVars, pureVars>>
    \/ \E p \in Procs : LoadRead(p) /\ UNCHANGED <<cyc, httpVars, pureVars>>
    \/ \E p \in Procs : CycleSave(p) /\ UNCHANGED <<httpVars, pureVars>>
    \/ \E p \in Procs : SaveWrite(p) /\ UNCHANGED <<cyc, httpVars, pureVars>>
    \/ \E p \in Procs : SaveClose(p) /\ UNCHANGED <<cyc, httpVars, pureVars>>
    \/ \E p \in Procs : SaveReplace(p) /\ UNCHANGED <<cyc, httpVars, pureVars>>

SpecCycle == InitFirstRun /\ [][NextCycle]_vars

NextHttp ==
    \/ \E r \in Requests : Receive(r) /\ UNCHANGED <<storeVars, cyc, pureVars>>
    \/ \E r \in Responses : ModelReturns(r) /\ UNCHANGED <<storeVars, cyc, pureVars>>
    \/ ModelRaises /\ UNCHANGED <<storeVars, cyc, pureVars>>

SpecHttp == InitFirstRun /\ [][NextHttp]_vars
(***************************************************************************)
(* load_state over files of any content                                    *)
(***************************************************************************)
\* A record of an older schema.
OldRecord == [need_image |-> PyBool(TRUE), prompt |-> PyStr(<<"p">>)]

\* Texts that are no JSON: an empty file, bytes that do not decode, a
\* record cut short, a record with a hole, a record followed by more.
CorruptSamples ==
    {<<>>, <<Junk>>, SubSeq(Dumps(RichRecord), 1, BufSize),
     WriteAt(<<LBrace>>, 2, <<RBrace>>), Dumps(OldRecord) \o <<RBrace>>}

\* Texts that are JSON: null, a list, a number, records.
JsonSamples ==
    {<<<<"lit", "null">>>>, <<LBrack, <<"num", 1>>, RBrack>>, <<<<"num", 5>>>>,
     <<<<"ws", " ">>>> \o Dumps(OldRecord) \o <<<<"ws", "\n">>>>, Dumps(RichRecord)}

\* A state directory whose files hold anything.
InitLoad ==
    /\ \E g \in [CanonPaths -> CorruptSamples \cup JsonSamples \cup {Absent}] :
          InitFiles(g)
    /\ InitThreads
    /\ InitCycle
    /\ InitHttp
    /\ InitKey(<<>>)
    /\ InitNorm(NoModelResponse)

NextLoad ==
    \/ \E p \in Procs, id \in DeviceIds :
          Budget /\ LoadOpen(p, id) /\ UNCHANGED <<cyc, httpVars, pureVars>>
    \/ \E p \in Procs : LoadRead(p) /\ UNCHANGED <<cyc, httpVars, pureVars>>

SpecLoad == InitLoad /\ [][NextLoad]_vars

\* A record as a later version of the program stores it, no field of it
\* the default; last_response is stored as null.
FullRecord ==
    [RichRecord EXCEPT !.prompt = PyStr(<<"p">>), !.last_response = PyNone]

\* The fields an older version of the program may have known.
OldFields ==
    {"need_image", "request_id", "prompt", "last_image_size", "last_response",
     "updated_at"}

\* The records of older schemas: any of those fields, {} included.
OldRecords == {[k \in K |-> FullRecord[k]] : K \in SUBSET OldFields}

\* One device has a record of an older schema stored, the others none.
InitOldRecords ==
    /\ \E q \in CanonPaths, d \in OldRecords :
          InitFiles([x \in CanonPaths |-> IF x = q THEN Dumps(d) ELSE Absent])
    /\ InitThreads
    /\ InitCycle
    /\ InitHttp
    /\ InitKey(<<>>)
    /\ InitNorm(NoModelResponse)

SpecOldRecords == InitOldRecords /\ [][NextLoad]_vars

(***************************************************************************)
(* state_path on its own                                                   *)
(***************************************************************************)
\* Characters of identifiers: a letter, a digit, the two other characters
\* state_path keeps, and a separator, a dot and a blank.
IdChars == {"a", "0", "-", "_", "/", ".", " "}

KeyIds == UNION {[1..n -> IdChars] : n \in 0..MaxIdLen} \cup {DefaultName}

\* state_path(device_id) for the identifier a caller gives.
StatePath ==
    /\ kcalls = 0
    /\ key' = state_path(kid).name
    /\ kcalls' = 1
    /\ UNCHANGED <<kraw, kid, nresp, ntext>>

\* state_path again, the name it made given back as the identifier.
StatePathOfKey ==
    /\ kcalls = 1
    /\ kid' = key
    /\ key' = state_path(key).name
    /\ kcalls' = 2
    /\ UNCHANGED <<kraw, nresp, ntext>>

InitStatePath ==
    /\ InitEmpty /\ InitCycle /\ InitHttp /\ InitNorm(NoModelResponse)
    /\ \E id \in KeyIds : InitKey(id)

NextStatePath ==
    \/ StatePath /\ UNCHANGED <<storeVars, cyc, httpVars>>
    \/ StatePathOfKey /\ UNCHANGED <<storeVars, cyc, httpVars>>

SpecStatePath == InitStatePath /\ [][NextStatePath]_vars

(***************************************************************************)
(* get_output_text on its own                                              *)
(***************************************************************************)
\* The text attribute of a content segment: missing, white space only, and
\* two texts with content, one of them with white space around it.
SegTexts ==
    {PyNone, PyText(<<<<"ws", " ">>, <<"ws", "\n">>>>),
     PyText(<<<<"ws", " ">>, LBrace, <<"ws", "\n">>>>), PyText(<<RBrace>>)}

\* The content attribute of an output item: missing, a value that cannot
\* be iterated, or a list of segments.
Contents ==
    {PyNone, PyInt(1)}
    \cup {PyList(l) : l \in UNION {[1..n -> [text : SegTexts]] : n \in 0..MaxSegs}}

\* The output attribute: missing, a value that cannot be iterated, or a
\* list of no, one or two items.
Outputs ==
    {PyNone, PyInt(1), PyList(<<>>)}
    \cup {PyList(<<a>>) : a \in [content : Contents]}
    \cup {PyList(<<a, b>>) : a \in [content : Contents], b \in [content : Contents]}

\* The output_text attribute: missing, no str, white space only, a text.
OutputTexts ==
    {PyNone, PyInt(5), PyText(<<<<"ws", "\n">>>>),
     PyText(<<<<"ws", " ">>, <<"lit", "true">>, <<"ws", " ">>>>)}

NormResponses == [output_text : OutputTexts, output : Outputs]

\* get_output_text(resp) is called and returns.
Normalize ==
    /\ ntext = NoText
    /\ ntext' = get_output_text(nresp)
    /\ UNCHANGED <<kraw, kid, key, kcalls, nresp>>

InitNormalize ==
    /\ InitEmpty /\ InitCycle /\ InitHttp /\ InitKey(<<>>)
    /\ \E r \in NormResponses : InitNorm(r)

NextNormalize == Normalize /\ UNCHANGED <<storeVars, cyc, httpVars>>

SpecNormalize == InitNormalize /\ [][NextNormalize]_vars

(***************************************************************************)
(* Properties of the state store                                           *)
(***************************************************************************)
CompleteText(t) == IsCompleteDump(t, StateSamples)

\* The files and the loads hold complete records only.
C1_Complete ==
    /\ \A q \in CanonPaths : dir[q] # 0 => CompleteText(ino[dir[q]])
    /\ \A p \in Procs : pc[p] = "load_opened" => CompleteText(ino[fd[p]])
    /\ \A p \in Procs :
          ret[p].op = "load" =>
             \/ data[p] = Absent /\ ret[p].val = PyDict(default_state)
             \/ \E S \in StateSamples : data[p] = Dumps(S) /\ ret[p].val = PyDict(S)

\* A step changes the text at a final path only by a replace, to the whole
\* record of the save that replaces.
C1_Step ==
    \A q \in CanonPaths :
       FileText(dir', ino', q) # FileText(dir, ino, q) =>
          \E p \in Procs :
             /\ pc[p] = "save_closed"
             /\ state_path(sdev[p]) = q
             /\ FileText(dir', ino', q) = Dumps(sst[p])

\* C1: with one save in flight at a time and loads interleaved at every step
\* of it, the file at the final path is always the previous or the new
\* complete record (it is complete in every state and changes only in the
\* replace, to the record being saved), and every load reads, and returns
\* the record of, a complete text.
C1_AtomicReplace == []C1_Complete /\ [][C1_Step]_vars

\* A load that opened the file before a replace and read it after: it
\* returned the previous record while the new one is at the path.
C1_Witness ==
    \E p \in Procs :
       /\ ret[p].op = "load"
       /\ data[p] # Absent
       /\ FileText(dir, ino, state_path(ldev[p])) # Absent
       /\ FileText(dir, ino, state_path(ldev[p])) # data[p]

\* A step of a save before its replace, its failure included.
BeforeReplace(p) ==
    /\ pc[p] \in {"idle", "save_writing", "save_closed"}
    /\ \/ pc'[p] \in {"save_writing", "save_closed"}
       \/ ret'[p] = [op |-> "save", ok |-> FALSE, val |-> PyNone] /\ pc[p] # "idle"

\* C2: every step of a save up to and including its failure before the
\* replace leaves the text at every final path as it was (the previous
\* record, or no file), and load_state for the device would return what it
\* returned before the save began.
C2_FailureKeepsPrevious ==
    [][\A p \in Procs :
          BeforeReplace(p) =>
             /\ \A q \in CanonPaths : FileText(dir', ino', q) = FileText(dir, ino, q)
             /\ LoadStateOf(dir', ino', sdev'[p]) = LoadStateOf(dir, ino, sdev'[p])]_vars

\* A save failed part-way for a device that has a stored record: the record
\* is still there and the temporary file holds a partial text.
C2_Witness ==
    \E p \in Procs :
       /\ ret[p] = [op |-> "save", ok |-> FALSE, val |-> PyNone]
       /\ pc[p] = "idle"
       /\ CompleteText(FileText(dir, ino, state_path(sdev[p])))
       /\ FileText(dir, ino, TmpPath(state_path(sdev[p]))) # Absent
       /\ Len(FileText(dir, ino, TmpPath(state_path(sdev[p])))) = BufSize
       /\ LoadStateOf(dir, ino, sdev[p]) # sst[p]

\* A thread's load that follows its own completed save for the same key.
LoadAfterSave(p) ==
    /\ ret[p].op = "load"
    /\ prev[p] = [op |-> "save", ok |-> TRUE, val |-> PyNone]
    /\ state_path(ldev[p]) = state_path(sdev[p])

\* C3: a completed save_state(id, S) followed by load_state(id), no other
\* save for the key in between, returns S field for field.
C3_RoundTrip ==
    \A p \in Writers : LoadAfterSave(p) => ret[p].val = PyDict(sst[p])

\* A round trip of a record other than the default one.
C3_Witness ==
    \E p \in Writers :
       /\ LoadAfterSave(p)
       /\ sst[p] # default_state
       /\ sst[p].request_id # PyStr(<<>>)
       /\ sst[p].need_image = PyBool(TRUE)

\* The file a load's device has is missing or holds no JSON.
NoRecord(id) ==
    \/ FileText(dir, ino, state_path(id)) = Absent
    \/ ~JsonLoad(FileText(dir, ino, state_path(id))).ok

\* C4: load_state never raises, and where no file is stored for the device
\* or the file holds no JSON it returns the all-default DeviceState.
C4_DefaultFallback ==
    \A p \in Procs :
       ret[p].op = "load" =>
          /\ ret[p].ok
          /\ NoRecord(ldev[p]) => ret[p].val = PyDict(default_state)

\* Loads of a missing file and of a file cut short have both returned.
C4_Witness ==
    /\ ret[1].op = "load" /\ ret[2].op = "load"
    /\ FileText(dir, ino, state_path(ldev[1])) = Absent
    /\ FileText(dir, ino, state_path(ldev[2])) = SubSeq(Dumps(RichRecord), 1, BufSize)
    /\ ldev[2] # <<>>

\* The DeviceState stored at a final path: what load_state makes of the file.
StoredState(d, c, q) == LoadResult(c[d[q]]).val[2]

NonEmptyStr(v) == IsStr(v) /\ v[2] # <<>>

\* A stored record with need_image true has a request_id and an image_request.
C12_Pending ==
    \A q \in CanonPaths :
       (dir[q] # 0 /\ StoredState(dir, ino, q).need_image = PyBool(TRUE)) =>
          /\ NonEmptyStr(StoredState(dir, ino, q).request_id)
          /\ NonEmptyStr(StoredState(dir, ino, q).image_request)

\* A step that clears a stored need_image stores a final response with it.
C12_Cleared ==
    \A q \in CanonPaths :
       (/\ dir[q] # 0 /\ dir'[q] # 0
        /\ StoredState(dir, ino, q).need_image = PyBool(TRUE)
        /\ StoredState(dir', ino', q).need_image # PyBool(TRUE)) =>
          /\ NonEmptyStr(StoredState(dir', ino', q).last_response)
          /\ StoredState(dir', ino', q).request_id = StoredState(dir, ino, q).request_id

\* C12: every stored DeviceState with need_image true has a non-empty
\* request_id and a non-empty image_request, and need_image goes from true
\* to false only in a step that also records the final response for that
\* request_id.
C12_NeedImageInvariant == []C12_Pending /\ [][C12_Cleared]_vars

\* The characters the key may hold, among those drawn: the letter, the
\* digit, '-' and '_'.
ValidChars == {"a", "0", "-", "_", "d", "e", "f", "l", "t", "u"}

\* The positions of id that hold a valid character.
ValidAt(id) == {i \in DOMAIN id : id[i] \in ValidChars}

\* k holds the valid characters of id, all of them, in id's order: its j-th
\* character is the one at the j-th valid position of id.
KeepsValid(id, k) ==
    /\ Len(k) = Cardinality(ValidAt(id))
    /\ \A i \in ValidAt(id) : k[Cardinality({h \in ValidAt(id) : h <= i})] = id[i]

\* C13: the key state_path derives holds exactly the alphanumeric, '-' and
\* '_' characters of the identifier in their order; an identifier with none,
\* the empty one included, gives "default"; and deriving the key of a key
\* gives the key back.
C13_Sanitization ==
    /\ kcalls >= 1 =>
          /\ ValidAt(kid) # {} => KeepsValid(kid, key)
          /\ ValidAt(kid) = {} => key = DefaultName
    /\ kcalls = 2 => key = kid

\* An identifier with a separator between valid characters lost it, and the
\* key derived from the key is the same.
C13_Witness ==
    /\ kcalls = 2
    /\ kraw = <<"a", "/", "-">>
    /\ kid = <<"a", "-">>
    /\ key = <<"a", "-">>

\* A str with content other than white space.
HasContent(v) == IsText(v) /\ \E i \in DOMAIN v[2] : ~IsSpace(v[2][i])

\* The output items of r, none when the attribute is missing or falsy.
ItemsOf(r) == IF r.output[1] = "list" THEN r.output[2] ELSE <<>>

\* The segments of an item, none when its content is missing.
SegsOf(item) == IF item.content[1] = "list" THEN item.content[2] ELSE <<>>

\* The first item whose content makes the traversal fail, if any.
FailsAt(r) ==
    LET bad == {i \in DOMAIN ItemsOf(r) : ItemsOf(r)[i].content[1] = "int"}
    IN IF bad = {} THEN Len(ItemsOf(r)) + 1
       ELSE CHOOSE i \in bad : \A h \in bad : i <= h

\* Item and segment of every text with content met before a failure.
FragmentsAt(r) ==
    {<<i, j>> \in (1..Len(ItemsOf(r))) \X (1..MaxSegs + 1) :
        /\ i < FailsAt(r)
        /\ j <= Len(SegsOf(ItemsOf(r)[i]))
        /\ HasContent(SegsOf(ItemsOf(r)[i])[j].text)}

Before(a, b) == a[1] < b[1] \/ (a[1] = b[1] /\ a[2] <= b[2])

\* The fragments in order, items first and the segments within each item.
FragmentsOf(r) ==
    [n \in 1..Cardinality(FragmentsAt(r)) |->
        LET at == CHOOSE a \in FragmentsAt(r) :
                     Cardinality({b \in FragmentsAt(r) : Before(b, a)}) = n
        IN StripText(SegsOf(ItemsOf(r)[at[1]])[at[2]].text[2])]

\* Where the n-th of the texts fs ends once they are joined (the one
\* before the first ends one short of the start, for the newline it lacks).
RECURSIVE EndOf(_, _)
EndOf(fs, n) == IF n = 0 THEN -1 ELSE EndOf(fs, n - 1) + 1 + Len(fs[n])

\* t is the texts of fs with one newline between each two.
IsJoined(t, fs) ==
    /\ Len(t) = IF Len(fs) = 0 THEN 0 ELSE EndOf(fs, Len(fs))
    /\ \A n \in 1..Len(fs) :
          /\ SubSeq(t, EndOf(fs, n - 1) + 2, EndOf(fs, n)) = fs[n]
          /\ n > 1 => t[EndOf(fs, n - 1) + 1] = <<"ws", "\n">>

TwoSaves ==
    /\ \A p \in Procs : pc[p] # "idle" \/ ret[p].op = "save"
    /\ sdev[1] = sdev[2]

\* C15: while and after two save_state calls for one device identifier run
\* interleaved at open, write, close and replace, the final path holds a
\* complete record (the one stored before, or the one given to a save),
\* never a cut or mixed text, and each call that ended ended without error.
C15_ConcurrentSaves ==
    TwoSaves =>
       /\ LET t == FileText(dir, ino, state_path(sdev[1]))
          IN t = Absent \/ CompleteText(t)
       /\ \A p \in Procs : ret[p].op = "save" => ret[p].ok

\* s has every field of DeviceState: d's value where d has the field, the
\* default where it has not.
MergedOverDefaults(s, d) ==
    /\ DOMAIN s = Fields
    /\ \A k \in Fields :
          s[k] = IF k \in DOMAIN d THEN d[k] ELSE default_state[k]

\* C16: load_state of a stored JSON object that holds any subset of the
\* DeviceState fields returns a record with every field, the stored value
\* for each stored field and the default for each other.
C16_OlderSchemaMerge ==
    \A p \in Procs :
       (ret[p].op = "load" /\ data[p] # Absent) =>
          \E d \in OldRecords :
             /\ data[p] = Dumps(d)
             /\ ret[p].ok
             /\ IsDict(ret[p].val)
             /\ MergedOverDefaults(ret[p].val[2], d)

\* A record that holds two fields only, one of them null, was loaded.
C16_Witness ==
    \E p \in Procs :
       /\ ret[p].op = "load"
       /\ data[p] = Dumps([k \in {"need_image", "last_response"} |-> FullRecord[k]])
       /\ ret[p].val[2].need_image = PyBool(TRUE)
       /\ ret[p].val[2].last_response = PyNone
       /\ ret[p].val[2].request_id = PyStr(<<>>)

\* The key an identifier sanitizes to: its valid characters, "default"
\* when it has none.
KeyOf(id) ==
    LET v == SelectSeq(id, LAMBDA c : c \in ValidChars)
    IN IF v = <<>> THEN DefaultName ELSE v

\* Two identifiers that are not the same and sanitize to the same key.
Aliases(a, b) == a # b /\ KeyOf(a) = KeyOf(b)

SaveDone(p) ==
    pc[p] = "idle" /\ ret[p] = [op |-> "save", ok |-> TRUE, val |-> PyNone]

\* C17: identifiers that sanitize to one key share one stored record: once
\* save_state under one of them has completed, load_state under another
\* returns the record saved, at once and as the thread's next call.
C17_AliasesShareRecord ==
    \A p \in Writers :
       /\ SaveDone(p) =>
             \A id \in DeviceIds :
                Aliases(id, sdev[p]) => LoadStateOf(dir, ino, id) = sst[p]
       /\ (/\ ret[p].op = "load"
           /\ prev[p] = [op |-> "save", ok |-> TRUE, val |-> PyNone]
           /\ Aliases(ldev[p], sdev[p])) => ret[p].val = PyDict(sst[p])

\* A record saved under "/" was loaded under "default".
C17_Witness ==
    \E p \in Writers :
       /\ ret[p].op = "load"
       /\ prev[p] = [op |-> "save", ok |-> TRUE, val |-> PyNone]
       /\ sdev[p] = <<"/">>
       /\ ldev[p] = DefaultName
       /\ sst[p] = RichRecord
       /\ ret[p].val = PyDict(RichRecord)

\* The step is one of thread p's save_state: its open, a write, its close,
\* its replace or its failure.
SaveStep(p) ==
    /\ pc[p] \in {"idle", "save_writing", "save_closed"}
    /\ pc'[p] \in {"idle", "save_writing", "save_closed"}
    /\ pc'[p] # pc[p] \/ pos'[p] # pos[p]

\* C18: no step of a save_state for one device, to its end, to a crash or
\* left in flight, changes the file of a device with another key or what
\* load_state returns for it.
C18_OtherDevicesUnchanged ==
    [][\A p \in Procs, b \in DeviceIds :
          (SaveStep(p) /\ KeyOf(b) # KeyOf(sdev'[p])) =>
             /\ LoadStateOf(dir', ino', b) = LoadStateOf(dir, ino, b)
             /\ FileText(dir', ino', state_path(b)) = FileText(dir, ino, state_path(b))
             /\ FileText(dir', ino', TmpPath(state_path(b)))
                   = FileText(dir, ino, TmpPath(state_path(b)))]_vars

\* Device "a" has its record from before while a save for "default" has
\* completed, one has crashed and left its temporary file, or one is in flight.
C18_Witness ==
    /\ LoadStateOf(dir, ino, <<"a">>) = RichRecord
    /\ \E p \in Procs :
          /\ KeyOf(sdev[p]) = DefaultName
          /\ sst[p] = default_state
          /\ \/ SaveDone(p)
             \/ pc[p] = "save_writing" /\ pos[p] > 0
             \/ /\ ret[p] = [op |-> "save", ok |-> FALSE, val |-> PyNone]
                /\ FileText(dir, ino, TmpPath(state_path(sdev[p]))) # Absent

SaveCrashed == [op |-> "save", ok |-> FALSE, val |-> PyNone]

\* The temporary file of a device, Absent when there is none.
TmpText(id) == FileText(dir, ino, TmpPath(state_path(id)))

\* C19: the temporary file a crashed save_state leaves changes nothing for
\* the device: a load_state after the crash returns what the final path
\* holds (the record from before, or the default when there is none), and
\* a save_state that completes, the next one for the device included, has
\* published exactly its record and left no temporary file; a save ends in
\* failure only by crashing before its replace, its temporary file left.
C19_LeftoverTmpHarmless ==
    \A p \in Writers :
       /\ (/\ ret[p].op = "load"
           /\ prev[p] = SaveCrashed
           /\ KeyOf(ldev[p]) = KeyOf(sdev[p])) =>
             /\ TmpText(sdev[p]) # Absent
             /\ ret[p].ok
             /\ \/ /\ FileText(dir, ino, state_path(ldev[p])) = Absent
                   /\ ret[p].val = PyDict(default_state)
                \/ \E S \in StateSamples :
                      /\ FileText(dir, ino, state_path(ldev[p])) = Dumps(S)
                      /\ ret[p].val = PyDict(S)
       /\ SaveDone(p) =>
             /\ FileText(dir, ino, state_path(sdev[p])) = Dumps(sst[p])
             /\ TmpText(sdev[p]) = Absent
       /\ (pc[p] = "idle" /\ ret[p] = SaveCrashed) => TmpText(sdev[p]) # Absent

\* A save crashed, and the next save completed with no temporary file left
\* in the directory: it was for the same device, and took the file over.
C19_Witness ==
    \E p \in Writers :
       /\ prev[p] = SaveCrashed
       /\ SaveDone(p)
       /\ \A id \in DeviceIds : TmpText(id) = Absent
       /\ sst[p] = RichRecord

\* The step is one of thread p's load_state: its open, with the return
\* when the file is missing, or its read.
LoadStep(p) ==
    \/ pc[p] = "idle" /\ pc'[p] = "load_opened"
    \/ pc[p] = "idle" /\ pc' = pc /\ calls' # calls /\ ret'[p].op = "load"
    \/ pc[p] = "load_opened" /\ pc'[p] = "idle"

\* C20: no step of load_state changes the storage: the directory has the
\* same files with the same texts after it, so a device with no record
\* gets none by being loaded, and a corrupt record stays as it is.
C20_LoadReadOnly ==
    [][\A p \in Procs :
          LoadStep(p) =>
             /\ dir' = dir
             /\ \A q \in Paths : FileText(dir', ino', q) = FileText(dir, ino, q)]_vars

\* One load has returned for a device with no file and one for a device
\* whose file is cut short; there is still no file, and the same cut text.
C20_Witness ==
    \E p, r \in Procs :
       /\ ret[p].op = "load" /\ ret[r].op = "load"
       /\ data[p] = Absent
       /\ FileText(dir, ino, state_path(ldev[p])) = Absent
       /\ data[r] = SubSeq(Dumps(RichRecord), 1, BufSize)
       /\ FileText(dir, ino, state_path(ldev[r])) = data[r]
       /\ ret[r].val = PyDict(default_state)

(***************************************************************************)
(* Properties of the router and of the transcript route                    *)
(***************************************************************************)
\* The model returned (it did not raise) and the handler has answered.
Routed == hpc = "done" /\ resp # NoModelResponse

RawText == get_output_text(resp)

DecisionKeys == {"needs_image", "image_request", "assistant_response"}

\* The response is 200 with the Decision route_transcript is to build from d.
IsDecisionOf(d) ==
    /\ response.status = 200
    /\ response.kind = "decision"
    /\ response.body.needs_image = PyBool(Truthy(DictGet(d, "needs_image")))
    /\ \A k \in {"image_request", "assistant_response"} :
          /\ IsStr(response.body[k])
          /\ Strip(response.body[k][2]) = response.body[k][2]
          /\ ~Truthy(DictGet(d, k)) => response.body[k] = PyStr(<<>>)

\* C5: for a model output that is a JSON object holding the three keys with
\* values of any JSON type, the router produces a Decision without raising:
\* needs_image the truth value of the given one, the two strings trimmed.
C5_DecisionForAnyTypes ==
    (/\ Routed
     /\ JsonLoad(RawText).ok
     /\ IsDict(JsonLoad(RawText).val)
     /\ DecisionKeys \subseteq DOMAIN JsonLoad(RawText).val[2])
       => IsDecisionOf(JsonLoad(RawText).val[2])

InvalidRouterResponse == Http(500, "error", ErrorBody("Invalid router response"))

\* C6: route_transcript fails with "Invalid router response" if and only if
\* the normalized output is no JSON; every output that parses, the empty
\* object included, gives a Decision with the defaults for what is absent.
C6_InvalidIffUnparseable ==
    Routed =>
       /\ response = InvalidRouterResponse <=> ~JsonLoad(RawText).ok
       /\ (JsonLoad(RawText).ok /\ IsDict(JsonLoad(RawText).val))
             => IsDecisionOf(JsonLoad(RawText).val[2])

\* C8: after a request whose Decision has needs_image true, the device's
\* stored DeviceState has need_image true, the transcript as prompt, the
\* Decision's image_request and a request_id.
C8_NeedsImagePersisted ==
    (hpc = "done" /\ response.kind = "decision" /\ response.body.needs_image = PyBool(TRUE))
       => LET s == LoadStateOf(dir, ino, get_device_id(req)[2])
          IN /\ s.need_image = PyBool(TRUE)
             /\ s.prompt = PyStr(TranscriptText(payload))
             /\ s.image_request = response.body.image_request
             /\ s.request_id # PyStr(<<>>)

\* The source gives the field a non-empty value.
Gives(src, k) == k \in DOMAIN src /\ Truthy(src[k])

JsonFields(r) == IF r.json \in {NoBody, PyNone} THEN EmptyDict ELSE r.json[2]

\* C9: a field given by more than one of JSON body, form and query string
\* resolves with JSON highest: a non-empty JSON value wins over form and
\* query values, a form value over a query value.
C9_JsonPrecedence ==
    hpc # "idle" =>
       \A k \in {"transcript", "device_id"} :
          /\ Gives(JsonFields(req), k) => payload[k] = JsonFields(req)[k]
          /\ (~Gives(JsonFields(req), k) /\ Gives(req.form, k)) => payload[k] = req.form[k]

\* A value that is no transcript: null, or a str of white space only.
IsBlank(v) == v = PyNone \/ (IsStr(v) /\ Strip(v[2]) = <<>>)

\* No source of the request gives a transcript that is not blank.
TranscriptMissing(r) ==
    \A src \in {JsonFields(r), r.form, r.args} :
       "transcript" \in DOMAIN src => IsBlank(src["transcript"])

HasTranscript ==
    hpc # "idle" /\ IsStr(TranscriptValue(payload)) /\ TranscriptText(payload) # <<>>

\* The two responses the route gives once the router ran.
IsDecisionResponse ==
    /\ response.status = 200
    /\ response.kind = "decision"
    /\ DOMAIN response.body = DecisionKeys

IsErrorResponse ==
    /\ response.status = 500
    /\ response.kind = "error"
    /\ DOMAIN response.body = {"error"}

CycleDone(p) ==
    cyc[p] = "saving" /\ pc[p] = "idle" /\ ret[p] = [op |-> "save", ok |-> TRUE, val |-> PyNone]

\* C7: two requests for one device that each run a load, mutate, save cycle
\* are serialized, so the stored record holds both mutations.
C7_NoLostUpdate ==
    ((\A p \in Procs : CycleDone(p)) /\ ldev[1] = ldev[2])
       => \A p \in Procs :
             LoadStateOf(dir, ino, ldev[1])[MutField(p)] = PyStr(<<"m">>)
=============================================================================
